---------------------------- MODULE Spec2Model ----------------------------
(***************************************************************************)
(* Model of scikits/image/io/_plugins/plugin.py: the image I/O plugin      *)
(* registry (plugin_store, plugin_provides, plugin_module_name) and its    *)
(* four public operations load, use, call and available.                   *)
(*                                                                         *)
(* The registry is single threaded: every operation runs to completion,    *)
(* so each operation is one action.  Besides the three module-level        *)
(* dictionaries the model keeps two observation variables: prev_store, the *)
(* value of plugin_store when the last operation started, and last, the    *)
(* last operation with its arguments and its outcome.                      *)
(***************************************************************************)
EXTENDS Integers, Sequences, FiniteSets, TLC

VARIABLES plugin_store, plugin_provides, plugin_module_name, prev_store, last

vars == <<plugin_store, plugin_provides, plugin_module_name, prev_store, last>>

---------------------------------------------------------------------------
(* Bounds *)

\* longest list a load may build (load can grow a list without limit)
MaxLen == 3

---------------------------------------------------------------------------
(* Values *)

\* Python's None, as the default of use(kind=...) and call(plugin=...)
None == "None"

\* keys of plugin_store as the module creates it
StoreKeys == {"imread", "imsave", "imshow", "_app_show"}

\* empty lists, one per key
EmptyStore == [k \in StoreKeys |-> <<>>]

\* no callable was invoked / no mapping was returned
NoFunc == <<>>
NoResult == <<>>

\* Python values carry their type: == between values of different types is
\* False (a list is never equal to a str, a function never to a tuple)
Str(s) == [tag |-> "str", val |-> s]
List(l) == [tag |-> "list", val |-> l]
Tuple(t) == [tag |-> "tuple", val |-> t]
Function(f) == [tag |-> "function", val |-> f]

PyEq(a, b) == a.tag = b.tag /\ a.val = b.val

\* x in seq, for a Python list seq of tagged values
PyIn(x, seq) == \E i \in DOMAIN seq : PyEq(x, seq[i])

\* s.startswith('_'), on the capability names the model uses
StartsWithUnderscore(s) == s = "_app_show"

---------------------------------------------------------------------------
(* Environment: the .ini files of the plugin directory and the plugin      *)
(* modules next to them                                                    *)

\* the descriptor files: base name of the file, its first section, and the
\* stripped items of its provides line
IniFiles ==
  { [file |-> "A_plugin", section |-> "A",
     provides |-> <<"imread", "imsave", "frobnicate">>],
    [file |-> "B_plugin", section |-> "B",
     provides |-> <<"imread", "imshow", "_app_show">>],
    [file |-> "C_plugin", section |-> "C",
     provides |-> <<"imsave", "imread">>],
    [file |-> "D_plugin", section |-> "D",
     provides |-> <<"_app_show">>] }

\* every plugin name an operation is called with
Names == {"A", "B", "C", "D"}

\* attributes of the plugin modules, by module name
ModuleAttrs ==
  [m \in {"A_plugin", "B_plugin", "C_plugin", "D_plugin"} |->
     CASE m = "A_plugin" -> {"imread", "imsave"}
       [] m = "B_plugin" -> {"imread", "_app_show"}
       [] m = "C_plugin" -> {"imread", "imsave", "imshow"}
       [] m = "D_plugin" -> {"_app_show"}]

\* getattr(plugin_module, p): the function object, named by module and name
GetAttr(modname, p) == <<modname, p>>

\* capability arguments of use and call
KindArgs == StoreKeys \cup {"frobnicate"}

---------------------------------------------------------------------------
(* _scan_plugins *)

\* the provides list taken as declared, without the filter
valid_provides_unfiltered(provides) == provides

\* [p for p in provides if p in plugin_store]
valid_provides(provides) == SelectSeq(provides, LAMBDA p : p \in StoreKeys)

\* plugin_provides after the scan of the files ini
scan_provides(ini) ==
  [name \in {f.section : f \in ini} |->
     valid_provides((CHOOSE f \in ini : f.section = name).provides)]

\* plugin_module_name after the scan of the files ini
scan_module_name(ini) ==
  [name \in {f.section : f \in ini} |->
     (CHOOSE f \in ini : f.section = name).file]

---------------------------------------------------------------------------
(* available *)

\* active_plugins gathered from the public capabilities only
active_plugins_public(store) ==
  UNION {{store[k][i][1] : i \in DOMAIN store[k]} :
           k \in {q \in DOMAIN store : ~StartsWithUnderscore(q)}}

\* active_plugins: the plugins with an entry in some list of the store
active_plugins(store) ==
  UNION {{store[k][i][1] : i \in DOMAIN store[k]} : k \in DOMAIN store}

\* the mapping available(loaded) returns
available_result(store, provides, loaded) ==
  [plugin \in {q \in DOMAIN provides : ~loaded \/ q \in active_plugins(store)} |->
     SelectSeq(provides[plugin], LAMBDA f : ~StartsWithUnderscore(f))]


---------------------------------------------------------------------------
(* load *)

\* modname = plugin + "_plugin"
ModName(plugin) == plugin \o "_plugin"

\* the list store as (plugin, func) tuples, for the test func in store
AsTuples(funcs) == [i \in DOMAIN funcs |-> Tuple(funcs[i])]

\* store.append((plugin, func)) unless func in store
register_append(funcs, plugin, func) ==
  IF ~PyIn(Function(func), AsTuples(funcs))
    THEN funcs \o <<<<plugin, func>>>>
    ELSE funcs

\* store.insert(0, (plugin, func)) unless func in store
register(funcs, plugin, func) ==
  IF ~PyIn(Function(func), AsTuples(funcs))
    THEN <<<<plugin, func>>>> \o funcs
    ELSE funcs

\* the loop of load, left at the first capability the module lacks
RECURSIVE load_loop_stops(_, _, _, _)
load_loop_stops(store, plugin, provides, n) ==
  IF n = 0 THEN store
  ELSE LET s == load_loop_stops(store, plugin, provides, n - 1)
           p == provides[n]
       IN IF \E i \in 1..n : provides[i] \notin ModuleAttrs[ModName(plugin)]
            THEN s
            ELSE [s EXCEPT ![p] = register(s[p], plugin, GetAttr(ModName(plugin), p))]

\* the loop of load over the first n items of provides = plugin_provides[plugin]
RECURSIVE load_loop(_, _, _, _)
load_loop(store, plugin, provides, n) ==
  IF n = 0 THEN store
  ELSE LET s == load_loop(store, plugin, provides, n - 1)
           p == provides[n]
       IN IF p \notin ModuleAttrs[ModName(plugin)]
            THEN s
            ELSE [s EXCEPT ![p] = register(s[p], plugin, GetAttr(ModName(plugin), p))]

\* load with the import moved in front of the test of the plugin name
load_outcome_import_first(store, provides, module_name, plugin) ==
  IF plugin \notin DOMAIN module_name
    THEN [err |-> "UnknownPluginError", imported |-> ModName(plugin), store |-> store]
    ELSE [err |-> "ok", imported |-> ModName(plugin),
          store |-> load_loop(store, plugin, provides[plugin], Len(provides[plugin]))]

\* load that registers every attribute of the module named like a key of
\* the store, declared or not
load_outcome_all_attrs(store, provides, module_name, plugin) ==
  IF plugin \notin DOMAIN module_name
    THEN [err |-> "UnknownPluginError", imported |-> None, store |-> store]
    ELSE [err |-> "ok", imported |-> ModName(plugin),
          store |-> [k \in DOMAIN store |->
                       IF k \in ModuleAttrs[ModName(plugin)]
                         THEN register(store[k], plugin, GetAttr(ModName(plugin), k))
                         ELSE store[k]]]

\* outcome of load(plugin): the error raised, if any, the module it passed
\* to __import__ (None when it imported nothing) and the store it leaves
load_outcome(store, provides, module_name, plugin) ==
  IF plugin \notin DOMAIN module_name
    THEN [err |-> "UnknownPluginError", imported |-> None, store |-> store]
    ELSE [err |-> "ok", imported |-> ModName(plugin),
          store |-> load_loop(store, plugin, provides[plugin], Len(provides[plugin]))]

---------------------------------------------------------------------------
(* use *)

\* shuffle with the two halves in the wrong order
shuffle_others_first(funcs, name) ==
  SelectSeq(funcs, LAMBDA e : e[1] # name) \o SelectSeq(funcs, LAMBDA e : e[1] = name)

\* shuffle that puts the other plugins back in reverse
shuffle_reversing(funcs, name) ==
  LET others == SelectSeq(funcs, LAMBDA e : e[1] # name)
  IN SelectSeq(funcs, LAMBDA e : e[1] = name) \o
     [i \in DOMAIN others |-> others[Len(others) + 1 - i]]

\* shuffle that loses the second comprehension
shuffle_only_name(funcs, name) == SelectSeq(funcs, LAMBDA e : e[1] = name)

\* [(n, f) for (n, f) in funcs if n == name] + [... if n != name]
shuffle(funcs, name) ==
  SelectSeq(funcs, LAMBDA e : e[1] = name) \o SelectSeq(funcs, LAMBDA e : e[1] # name)

\* the test `kind in plugin_provides[name]`, made after kind = [kind]
kind_in_provides(kind, provides) ==
  PyIn(List(<<kind>>), [i \in DOMAIN provides |-> Str(provides[i])])

\* use that rebuilds the store from the lists holding an entry of name
use_outcome_drops_keys(store, provides, name, kind) ==
  LET ks == IF kind = None THEN DOMAIN store ELSE {kind}
  IN
  IF kind # None /\ name \notin DOMAIN provides
    THEN [err |-> "KeyError", store |-> store]
  ELSE IF kind # None /\ ~kind_in_provides(kind, provides[name])
    THEN [err |-> "UnsupportedCapabilityError", store |-> store]
  ELSE IF name \notin DOMAIN available_result(store, provides, TRUE)
    THEN [err |-> "PluginNotLoadedError", store |-> store]
  ELSE IF \E k \in ks : k \notin DOMAIN store
    THEN [err |-> "UnknownFunctionError", store |-> store]
  ELSE [err |-> "ok",
        store |-> [k \in {q \in ks : \E i \in DOMAIN store[q] : store[q][i][1] = name} |->
                     shuffle(store[k], name)]]

\* use that reorders the list of an explicit kind before it tests the kind
use_outcome_shuffle_then_raise(store, provides, name, kind) ==
  LET ks == IF kind = None THEN DOMAIN store ELSE {kind}
      shuffled == [k \in DOMAIN store |->
                     IF k \in ks THEN shuffle(store[k], name) ELSE store[k]]
  IN
  IF kind # None /\ name \notin DOMAIN provides
    THEN [err |-> "KeyError", store |-> store]
  ELSE IF kind # None /\ ~kind_in_provides(kind, provides[name])
    THEN [err |-> "UnsupportedCapabilityError", store |-> shuffled]
  ELSE IF name \notin DOMAIN available_result(store, provides, TRUE)
    THEN [err |-> "PluginNotLoadedError", store |-> store]
  ELSE IF \E k \in ks : k \notin DOMAIN store
    THEN [err |-> "UnknownFunctionError", store |-> store]
  ELSE [err |-> "ok", store |-> shuffled]

\* outcome of use(name, kind)
use_outcome(store, provides, name, kind) ==
  LET ks == IF kind = None THEN DOMAIN store ELSE {kind}
  IN
  IF kind # None /\ name \notin DOMAIN provides
    THEN [err |-> "KeyError", store |-> store]
  ELSE IF kind # None /\ ~kind_in_provides(kind, provides[name])
    THEN [err |-> "UnsupportedCapabilityError", store |-> store]
  ELSE IF name \notin DOMAIN available_result(store, provides, TRUE)
    THEN [err |-> "PluginNotLoadedError", store |-> store]
  ELSE IF \E k \in ks : k \notin DOMAIN store
    THEN [err |-> "UnknownFunctionError", store |-> store]
  ELSE [err |-> "ok",
        store |-> [k \in DOMAIN store |->
                     IF k \in ks THEN shuffle(store[k], name) ELSE store[k]]]

---------------------------------------------------------------------------
(* call *)

\* _, func = plugin_funcs[-1]
last_func(plugin_funcs) == plugin_funcs[Len(plugin_funcs)][2]

\* _, func = plugin_funcs[0]
first_func(plugin_funcs) == plugin_funcs[1][2]

\* the comprehension without its filter
funcs_of_any(plugin_funcs, plugin) == [i \in DOMAIN plugin_funcs |-> plugin_funcs[i][2]]

\* [f for (p, f) in plugin_funcs if p == plugin]
funcs_of(plugin_funcs, plugin) ==
  LET sel == SelectSeq(plugin_funcs, LAMBDA e : e[1] = plugin)
  IN [i \in DOMAIN sel |-> sel[i][2]]

\* call that looks the plugin up before it tests for an empty list
call_outcome_lookup_first(store, kind, plugin) ==
  IF kind \notin DOMAIN store
    THEN [err |-> "InvalidCapabilityError", func |-> NoFunc]
  ELSE IF plugin # None /\ Len(funcs_of(store[kind], plugin)) = 0
    THEN [err |-> "PluginNotFoundForCapabilityError", func |-> NoFunc]
  ELSE IF Len(store[kind]) = 0
    THEN [err |-> "NoPluginRegisteredError", func |-> NoFunc]
  ELSE IF plugin = None
    THEN [err |-> "ok", func |-> first_func(store[kind])]
  ELSE [err |-> "ok", func |-> funcs_of(store[kind], plugin)[1]]

\* outcome of call(kind, plugin=plugin): the error raised or the callable invoked
call_outcome(store, kind, plugin) ==
  IF kind \notin DOMAIN store
    THEN [err |-> "InvalidCapabilityError", func |-> NoFunc]
  ELSE IF Len(store[kind]) = 0
    THEN [err |-> "NoPluginRegisteredError", func |-> NoFunc]
  ELSE IF plugin = None
    THEN [err |-> "ok", func |-> first_func(store[kind])]
  ELSE IF Len(funcs_of(store[kind], plugin)) = 0
    THEN [err |-> "PluginNotFoundForCapabilityError", func |-> NoFunc]
  ELSE [err |-> "ok", func |-> funcs_of(store[kind], plugin)[1]]

---------------------------------------------------------------------------
(* The state machine *)

\* the record of an operation: its name, its arguments (None when it has
\* no such argument), the error it raised or "ok", the callable it invoked,
\* the mapping it returned and the module it imported
Op(op, name, kind, err, func, result, imported) ==
  [op |-> op, name |-> name, kind |-> kind, err |-> err,
   func |-> func, result |-> result, imported |-> imported]

\* the module just imported: the store is empty and _scan_plugins() has run
\* over the .ini files found in the plugin directory
Init ==
  \E ini \in SUBSET IniFiles :
    /\ plugin_store = EmptyStore
    /\ plugin_provides = scan_provides(ini)
    /\ plugin_module_name = scan_module_name(ini)
    /\ prev_store = EmptyStore
    /\ last = Op("import", None, None, "ok", NoFunc, NoResult, None)

load(plugin) ==
  LET r == load_outcome(plugin_store, plugin_provides, plugin_module_name, plugin)
  IN /\ \A k \in StoreKeys : Len(r.store[k]) <= MaxLen
     /\ plugin_store' = r.store
     /\ prev_store' = plugin_store
     /\ last' = Op("load", plugin, None, r.err, NoFunc, NoResult, r.imported)
     /\ UNCHANGED <<plugin_provides, plugin_module_name>>

use(name, kind) ==
  LET r == use_outcome(plugin_store, plugin_provides, name, kind)
  IN /\ plugin_store' = r.store
     /\ prev_store' = plugin_store
     /\ last' = Op("use", name, kind, r.err, NoFunc, NoResult, None)
     /\ UNCHANGED <<plugin_provides, plugin_module_name>>

call(kind, plugin) ==
  LET r == call_outcome(plugin_store, kind, plugin)
  IN /\ prev_store' = plugin_store
     /\ last' = Op("call", plugin, kind, r.err, r.func, NoResult, None)
     /\ UNCHANGED <<plugin_store, plugin_provides, plugin_module_name>>

\* available that filters the lists of plugin_provides in place
available_in_place(loaded) ==
  /\ prev_store' = plugin_store
  /\ last' = Op(IF loaded THEN "available_loaded" ELSE "available", None, None, "ok",
                NoFunc, available_result(plugin_store, plugin_provides, loaded), None)
  /\ plugin_provides' =
       [q \in DOMAIN plugin_provides |->
          SelectSeq(plugin_provides[q], LAMBDA f : ~StartsWithUnderscore(f))]
  /\ UNCHANGED <<plugin_store, plugin_module_name>>

available(loaded) ==
  /\ prev_store' = plugin_store
  /\ last' = Op(IF loaded THEN "available_loaded" ELSE "available", None, None, "ok",
                NoFunc, available_result(plugin_store, plugin_provides, loaded), None)
  /\ UNCHANGED <<plugin_store, plugin_provides, plugin_module_name>>

Next ==
  \/ \E plugin \in Names : load(plugin)
  \/ \E name \in Names, kind \in KindArgs \cup {None} : use(name, kind)
  \/ \E kind \in KindArgs, plugin \in Names \cup {None} : call(kind, plugin)
  \/ \E loaded \in BOOLEAN : available(loaded)

Spec == Init /\ [][Next]_vars

TypeOK ==
  /\ DOMAIN plugin_store = StoreKeys
  /\ \A k \in StoreKeys : Len(plugin_store[k]) <= MaxLen

---------------------------------------------------------------------------
(* Properties *)

Range(seq) == {seq[i] : i \in DOMAIN seq}

\* the plugin names with an entry in the list funcs
PluginsIn(funcs) == {funcs[i][1] : i \in DOMAIN funcs}

\* name declared kind in its valid capability set
Declared(name, kind) ==
  name \in DOMAIN plugin_provides /\ kind \in Range(plugin_provides[name])

\* name is loaded in store: it has an entry in some list
Loaded(store, name) == \E k \in DOMAIN store : name \in PluginsIn(store[k])

\* after is before with the entries of name moved to the front: the entries
\* of name come first, and some one-to-one map of positions carries every
\* entry to an equal entry and keeps the order inside each of the two groups
IsStablePartition(before, after, name) ==
  /\ Len(after) = Len(before)
  /\ \E n \in 0..Len(after) :
       /\ \A i \in 1..n : after[i][1] = name
       /\ \A i \in (n + 1)..Len(after) : after[i][1] # name
  /\ \E f \in [DOMAIN before -> DOMAIN after] :
       /\ \A i, j \in DOMAIN before : i # j => f[i] # f[j]
       /\ \A i \in DOMAIN before : after[f[i]] = before[i]
       /\ \A i, j \in DOMAIN before :
            (i < j /\ (before[i][1] = name <=> before[j][1] = name)) => f[i] < f[j]

\* C1: load is idempotent: a load(p) that directly follows a successful
\* load(p) of the same plugin leaves every list of the store as it was.
C1_LoadIdempotent ==
  [][(/\ last.op = "load" /\ last.err = "ok"
      /\ last'.op = "load" /\ last'.name = last.name)
     => plugin_store' = plugin_store]_vars

\* C2: in every reachable state no (plugin, callable) pair occurs twice in
\* the list of a capability.
C2_NoDuplicateEntries ==
  \A k \in StoreKeys : \A i, j \in DOMAIN plugin_store[k] :
    i # j => plugin_store[k][i] # plugin_store[k][j]

\* C3: use(name, kind) with an explicit kind, for a loaded plugin that
\* declared kind, succeeds, moves name's entries to the front of kind's list
\* keeping the order of the rest, and leaves the other lists unchanged.
C3_UseKindMovesToFront ==
  (/\ last.op = "use" /\ last.kind # None
   /\ Loaded(prev_store, last.name)
   /\ Declared(last.name, last.kind))
  => /\ last.err = "ok"
     /\ IsStablePartition(prev_store[last.kind], plugin_store[last.kind], last.name)
     /\ \A k \in StoreKeys \ {last.kind} : plugin_store[k] = prev_store[k]

\* C4: call(kind) without a plugin argument, on a recognized kind whose list
\* is not empty, invokes the callable of the first entry of that list.
C4_CallDefaultIsFirst ==
  (/\ last.op = "call" /\ last.name = None
   /\ last.kind \in StoreKeys
   /\ Len(prev_store[last.kind]) > 0)
  => /\ last.err = "ok"
     /\ last.func = prev_store[last.kind][1][2]
     /\ last.func = plugin_store[last.kind][1][2]

\* a default call dispatched to a plugin that a use, not the latest load,
\* put in front of two other plugins
C4_Witness ==
  /\ last.op = "call" /\ last.name = None /\ last.err = "ok"
  /\ Len(plugin_store[last.kind]) = 3
  /\ Cardinality(PluginsIn(plugin_store[last.kind])) = 3
  /\ last.func = <<"A_plugin", "imread">>
  /\ plugin_store[last.kind][1][1] = "A"

\* C5: use(name) with kind omitted, for a loaded plugin, stably partitions
\* every list (name's entries first, the others after, both in their
\* original order), adds and drops nothing, and leaves a list without an
\* entry of name unchanged.
C5_UseAllStablePartition ==
  (/\ last.op = "use" /\ last.kind = None
   /\ Loaded(prev_store, last.name))
  => /\ last.err = "ok"
     /\ DOMAIN plugin_store = StoreKeys
     /\ \A k \in StoreKeys :
          /\ IsStablePartition(prev_store[k], plugin_store[k], last.name)
          /\ last.name \notin PluginsIn(prev_store[k]) => plugin_store[k] = prev_store[k]

\* a use without kind that moved its plugin in front of two others in one
\* list and met a non-empty list without any entry of that plugin
C5_Witness ==
  /\ last.op = "use" /\ last.kind = None /\ last.err = "ok"
  /\ \E k \in StoreKeys :
       /\ Cardinality(PluginsIn(prev_store[k])) = 3
       /\ prev_store[k][Len(prev_store[k])][1] = last.name
       /\ plugin_store[k] # prev_store[k]
  /\ \E k \in StoreKeys :
       /\ Len(prev_store[k]) > 0
       /\ last.name \notin PluginsIn(prev_store[k])

\* C6: use is idempotent: in the state a successful use(name, kind) leaves,
\* the same use(name, kind) succeeds again and changes no list.
C6_UseIdempotent ==
  (last.op = "use" /\ last.err = "ok")
  => use_outcome(plugin_store, plugin_provides, last.name, last.kind)
       = [err |-> "ok", store |-> plugin_store]

\* a successful use that did reorder a list holding three plugins
C6_Witness ==
  /\ last.op = "use" /\ last.err = "ok"
  /\ plugin_store # prev_store
  /\ \E k \in StoreKeys : Cardinality(PluginsIn(plugin_store[k])) = 3

\* C7: use(name, kind) fails with PluginNotLoadedError whenever name is in
\* no list, whatever the kind argument and whether or not name was scanned.
C7_UseNotLoaded ==
  (last.op = "use" /\ ~Loaded(prev_store, last.name))
  => last.err = "PluginNotLoadedError"

\* C8: use(name, kind) with an explicit kind fails with
\* UnsupportedCapabilityError exactly when the scanned plugin name did not
\* declare kind.
C8_UseUnsupportedIffUndeclared ==
  (/\ last.op = "use" /\ last.kind # None
   /\ last.name \in DOMAIN plugin_provides)
  => (last.err = "UnsupportedCapabilityError" <=> ~Declared(last.name, last.kind))

\* C9: call(kind, plugin=P) on a recognized kind with a non-empty list
\* invokes the callable of the first entry of P in that list, and fails with
\* PluginNotFoundForCapabilityError exactly when P has no entry in it.
C9_CallExplicitPlugin ==
  (/\ last.op = "call" /\ last.name # None
   /\ last.kind \in StoreKeys
   /\ Len(prev_store[last.kind]) > 0)
  => LET funcs == prev_store[last.kind]
         at == {i \in DOMAIN funcs : funcs[i][1] = last.name}
     IN /\ last.err = "PluginNotFoundForCapabilityError" <=> at = {}
        /\ at = {} => last.func = NoFunc
        /\ at # {} => /\ last.err = "ok"
                      /\ \E i \in at : /\ \A j \in at : i <= j
                                       /\ last.func = funcs[i][2]

\* a call by plugin name that dispatched to a plugin standing last in a
\* list of three plugins
C9_Witness ==
  /\ last.op = "call" /\ last.name # None /\ last.err = "ok"
  /\ Cardinality(PluginsIn(plugin_store[last.kind])) = 3
  /\ plugin_store[last.kind][3][1] = last.name
  /\ last.func = plugin_store[last.kind][3][2]

\* a call by plugin name refused for a list that lacks the plugin, the
\* plugin being loaded for another capability
C9_WitnessNotFound ==
  /\ last.op = "call" /\ last.err = "PluginNotFoundForCapabilityError"
  /\ Loaded(plugin_store, last.name)

\* C10: call fails with InvalidCapabilityError for an unrecognized kind and
\* otherwise with NoPluginRegisteredError when the list of kind is empty,
\* with or without a plugin argument; neither invokes a callable.
C10_CallInvalidOrEmpty ==
  last.op = "call"
  => /\ last.kind \notin StoreKeys
          => last.err = "InvalidCapabilityError" /\ last.func = NoFunc
     /\ (last.kind \in StoreKeys /\ Len(prev_store[last.kind]) = 0)
          => last.err = "NoPluginRegisteredError" /\ last.func = NoFunc

\* a call naming a loaded plugin, refused because the list of the kind is
\* empty
C10_Witness ==
  /\ last.op = "call" /\ last.name # None
  /\ last.err = "NoPluginRegisteredError"
  /\ Loaded(plugin_store, last.name)
  /\ Declared(last.name, last.kind)

\* a call with an unrecognized kind, refused while plugins are loaded
C10_WitnessInvalid ==
  /\ last.op = "call" /\ last.err = "InvalidCapabilityError"
  /\ \E k \in StoreKeys : Len(plugin_store[k]) > 0

\* the plugins with an entry in some list of store
LoadedPlugins(store) == UNION {PluginsIn(store[k]) : k \in DOMAIN store}

\* the capabilities whose name does not start with '_'
PublicKinds == {"imread", "imsave", "imshow"}

\* the attributes the module of plugin name exposes
Exposed(name) == ModuleAttrs[ModName(name)]

\* C11: available(loaded=True) has exactly the plugins with an entry in
\* some list (the '_app_show' list included) as keys, available(loaded=False)
\* exactly the scanned plugins; each value lists the declared capabilities
\* of the plugin whose names do not start with '_'.
C11_AvailableKeys ==
  /\ last.op = "available_loaded" => DOMAIN last.result = LoadedPlugins(plugin_store)
  /\ last.op = "available" => DOMAIN last.result = DOMAIN plugin_provides
  /\ last.op \in {"available", "available_loaded"} =>
       \A q \in DOMAIN last.result :
         last.result[q] = SelectSeq(plugin_provides[q], LAMBDA f : f \in PublicKinds)

\* available(loaded=True) listing a plugin loaded through '_app_show' only
\* and leaving out a scanned plugin that is not loaded
C11_Witness ==
  /\ last.op = "available_loaded"
  /\ \E q \in DOMAIN last.result :
       /\ q \in PluginsIn(plugin_store["_app_show"])
       /\ \A k \in PublicKinds : q \notin PluginsIn(plugin_store[k])
  /\ \E q \in DOMAIN plugin_provides : q \notin DOMAIN last.result

\* C12: a successful load(p) puts p's entry at the front of the list of
\* every capability p declared, its module exposes and whose list held no
\* entry of p, so that call(kind) without plugin then dispatches to p.
C12_LoadPutsFirst ==
  (last.op = "load" /\ last.err = "ok")
  => \A k \in StoreKeys :
       (/\ Declared(last.name, k)
        /\ k \in Exposed(last.name)
        /\ last.name \notin PluginsIn(prev_store[k]))
       => /\ plugin_store[k][1] = <<last.name, GetAttr(ModName(last.name), k)>>
          /\ Tail(plugin_store[k]) = prev_store[k]
          /\ call_outcome(plugin_store, k, None)
               = [err |-> "ok", func |-> GetAttr(ModName(last.name), k)]

\* a first load of a plugin into a list that already held two other plugins
C12_Witness ==
  /\ last.op = "load" /\ last.err = "ok"
  /\ \E k \in StoreKeys :
       /\ Cardinality(PluginsIn(prev_store[k])) = 2
       /\ last.name \notin PluginsIn(prev_store[k])
       /\ plugin_store[k][1][1] = last.name

\* C13: load(p) of a scanned plugin succeeds also when the module lacks
\* declared capabilities: afterwards p is registered under every declared
\* capability the module exposes, and the list of every other capability
\* (declared but missing, or not declared) is unchanged.
C13_LoadPartial ==
  (last.op = "load" /\ last.name \in DOMAIN plugin_module_name)
  => /\ last.err = "ok"
     /\ \A k \in StoreKeys :
          IF Declared(last.name, k) /\ k \in Exposed(last.name)
            THEN last.name \in PluginsIn(plugin_store[k])
            ELSE plugin_store[k] = prev_store[k]

\* a first load of a plugin whose module lacks a declared capability and
\* exposes another declared one
C13_Witness ==
  /\ last.op = "load" /\ last.err = "ok"
  /\ ~Loaded(prev_store, last.name)
  /\ \E k \in StoreKeys : Declared(last.name, k) /\ k \notin Exposed(last.name)
  /\ \E k \in StoreKeys : /\ Declared(last.name, k) /\ k \in Exposed(last.name)
                          /\ last.name \in PluginsIn(plugin_store[k])

\* C14: load(p) of a name the scan never found fails with
\* UnknownPluginError, imports nothing and leaves every list unchanged.
C14_LoadUnknown ==
  (last.op = "load" /\ last.name \notin DOMAIN plugin_module_name)
  => /\ last.err = "UnknownPluginError"
     /\ last.imported = None
     /\ plugin_store = prev_store

\* a refused load of an unscanned name while another plugin is loaded
C14_Witness ==
  /\ last.op = "load" /\ last.name \notin DOMAIN plugin_module_name
  /\ last.err = "UnknownPluginError"
  /\ LoadedPlugins(plugin_store) # {}

\* the recognized capability kinds
RecognizedKinds == {"imread", "imsave", "imshow", "_app_show"}

\* C15: in every reachable state the keys of the store are exactly the
\* recognized capability kinds: no operation adds or removes a key.
C15_StoreKeysFixed ==
  /\ DOMAIN plugin_store = RecognizedKinds
  /\ DOMAIN prev_store = RecognizedKinds

\* a use that reordered a list while another list is empty and a third one
\* has no entry of the plugin
C15_Witness ==
  /\ last.op = "use" /\ last.err = "ok"
  /\ plugin_store # prev_store
  /\ \E k \in DOMAIN plugin_store : plugin_store[k] = <<>>
  /\ \E k \in DOMAIN plugin_store :
       plugin_store[k] # <<>> /\ last.name \notin PluginsIn(plugin_store[k])

\* C16: after the scan the valid capability set of every plugin holds only
\* recognized kinds: an unrecognized declared capability is left out, the
\* plugin and its recognized capabilities are recorded all the same, and so
\* are the other descriptors.
C16_ScanValidProvides ==
  /\ \A q \in DOMAIN plugin_provides : Range(plugin_provides[q]) \subseteq RecognizedKinds
  /\ \A f \in IniFiles :
       f.section \in DOMAIN plugin_provides =>
         Range(plugin_provides[f.section]) = Range(f.provides) \cap RecognizedKinds
  /\ DOMAIN plugin_module_name = DOMAIN plugin_provides

\* the scan of all the descriptors, one of which declares an unrecognized
\* capability next to two recognized ones
C16_Witness ==
  /\ last.op = "import"
  /\ \E f \in IniFiles :
       /\ ~(Range(f.provides) \subseteq RecognizedKinds)
       /\ f.section \in DOMAIN plugin_provides
       /\ Len(plugin_provides[f.section]) = 2
  /\ DOMAIN plugin_provides = {f.section : f \in IniFiles}

\* C17: no operation changes plugin_provides or plugin_module_name, and
\* available, with either value of its flag, changes no list of the store.
C17_DescriptorsImmutable ==
  [][/\ plugin_provides' = plugin_provides
     /\ plugin_module_name' = plugin_module_name
     /\ last'.op \in {"available", "available_loaded"} => plugin_store' = plugin_store]_vars

\* available has answered for a store with loaded plugins and descriptors
\* that declare an internal capability
C17_Witness ==
  /\ last.op \in {"available", "available_loaded"}
  /\ plugin_store = prev_store
  /\ LoadedPlugins(plugin_store) # {}
  /\ \E q \in DOMAIN plugin_provides : "_app_show" \in Range(plugin_provides[q])
  /\ \E q \in DOMAIN last.result : last.result[q] # plugin_provides[q]

\* C18: a load, use or call that raises leaves every list of the store as
\* it was, and call never changes a list.
C18_FailuresLeaveStore ==
  (/\ last.op \in {"load", "use", "call"}
   /\ last.err # "ok" \/ last.op = "call")
  => plugin_store = prev_store

\* a use that raised for a kind in whose list its plugin stands behind
\* another plugin
C18_Witness ==
  /\ last.op = "use" /\ last.err # "ok"
  /\ last.kind \in StoreKeys
  /\ last.name \in PluginsIn(plugin_store[last.kind])
  /\ plugin_store[last.kind][1][1] # last.name

\* C19: no step removes a plugin from a list in which it has an entry, and
\* no step shortens a list.
C19_LoadedMonotonic ==
  [][\A k \in StoreKeys :
       /\ Len(plugin_store'[k]) >= Len(plugin_store[k])
       /\ PluginsIn(plugin_store[k]) \subseteq PluginsIn(plugin_store'[k])]_vars

\* a use that reordered a list of several plugins and kept all its entries
C19_Witness ==
  /\ last.op = "use" /\ last.err = "ok"
  /\ \E k \in StoreKeys :
       /\ plugin_store[k] # prev_store[k]
       /\ Len(plugin_store[k]) = Len(prev_store[k])
       /\ PluginsIn(plugin_store[k]) = PluginsIn(prev_store[k])
       /\ Cardinality(PluginsIn(plugin_store[k])) >= 2

\* C20: every entry of the list of a capability k names a scanned plugin
\* that declared k in its valid capability set.
C20_EntriesDeclared ==
  \A k \in StoreKeys : \A i \in DOMAIN plugin_store[k] :
    LET q == plugin_store[k][i][1]
    IN /\ q \in DOMAIN plugin_provides
       /\ q \in DOMAIN plugin_module_name
       /\ k \in Range(plugin_provides[q])

\* a loaded plugin whose module exposes a capability it did not declare,
\* next to a name the scan did not find
C20_Witness ==
  /\ last.op = "load" /\ last.err = "ok"
  /\ \E k \in StoreKeys :
       /\ k \in Exposed(last.name)
       /\ ~Declared(last.name, k)
       /\ last.name \notin PluginsIn(plugin_store[k])
  /\ \E q \in Names : q \notin DOMAIN plugin_provides

============================================================================
